---- MODULE Spec2Model ----
(***************************************************************************)
(* Phase-2 physical model generator: schema metadata to MySQL DDL and a    *)
(* Mermaid ERD.  Text is modelled as sequences of characters, a character  *)
(* being a one-letter string; the few non-ASCII characters the model       *)
(* uses are written by code point ("U+00DF").  Statements and diagram      *)
(* lines are records holding the character sequences the code formats      *)
(* into them, in emission order.                                           *)
(***************************************************************************)
EXTENDS Integers, Sequences, FiniteSets, TLC

VARIABLES
    raw,          \* tables_data read from metadata.json: <<[name, columns]>>
    formats,      \* config.ERD_FORMATS
    pc,           \* position in generate_physical_model
    metadata,     \* Metadata.tables, in insertion order
    sql_file,     \* statements written to mysql.sql
    mmd_file,     \* lines written to erd_mysql.mmd
    files,        \* names of the files written to the output directory
    browser,      \* the renderer's browser: "none", "open" or "closed"
    image_results,\* keys of the mapping render_mermaid returned
    results,      \* keys of the results generate_physical_model builds
    call,         \* the last direct call of a helper: [fn, arg, ret]
    prev          \* the call before it

vars == <<raw, formats, pc, metadata, sql_file, mmd_file, files,
          browser, image_results, results, call, prev>>

\* Bounds of the explored inputs.
MaxCols == 3
MaxNameLen == 2

\* Python's None.
None == <<"None">>

\* Python truthiness of an optional string: None and '' are falsy.
Truthy(v) == v # None /\ v # <<>>

-----------------------------------------------------------------------------
(* Characters: str.isalnum and str.upper                                   *)

LowerAlphabet ==
    <<"a","b","c","d","e","f","g","h","i","j","k","l","m",
      "n","o","p","q","r","s","t","u","v","w","x","y","z">>

UpperAlphabet ==
    <<"A","B","C","D","E","F","G","H","I","J","K","L","M",
      "N","O","P","Q","R","S","T","U","V","W","X","Y","Z">>

DigitChars == {"0","1","2","3","4","5","6","7","8","9"}

Range(s) == {s[i] : i \in DOMAIN s}

\* U+00DF sharp s, U+0390 iota with dialytika and tonos, U+0399 capital
\* iota and U+0131 dotless i are letters; U+0308 and U+0301 are combining
\* marks.
OtherLetters == {"U+00DF", "U+0390", "U+0399", "U+0131"}

AlnumChars ==
    Range(LowerAlphabet) \cup Range(UpperAlphabet) \cup DigitChars \cup OtherLetters

\* c.isalnum()
IsAlnum(c) == c \in AlnumChars

\* The upper-case form of each ASCII lower-case letter.
AsciiUpper ==
    [c \in Range(LowerAlphabet) |->
        UpperAlphabet[CHOOSE i \in DOMAIN LowerAlphabet : LowerAlphabet[i] = c]]

\* c.upper(): Unicode full case mapping, which may lengthen the text.
UpperChar(c) ==
    IF c \in DOMAIN AsciiUpper THEN <<AsciiUpper[c]>>
    ELSE IF c = "U+00DF" THEN <<"S", "S">>
    ELSE IF c = "U+0390" THEN <<"U+0399", "U+0308", "U+0301">>
    ELSE IF c = "U+0131" THEN <<"I">>
    ELSE <<c>>

RECURSIVE Upper(_)
\* s.upper()
Upper(s) == IF s = <<>> THEN <<>> ELSE UpperChar(Head(s)) \o Upper(Tail(s))

-----------------------------------------------------------------------------
(* generators/type_mapper.py                                               *)

VARCHAR255 == <<"V", "A", "R", "C", "H", "A", "R", "(", "2", "5", "5", ")">>
DECIMAL18_2 == <<"D", "E", "C", "I", "M", "A", "L", "(", "1", "8", ",", "2", ")">>

MYSQL_TYPE_MAP ==
    (<<"I", "N", "T", "E", "G", "E", "R">> :> <<"I", "N", "T">>) @@
    (<<"I", "N", "T">> :> <<"I", "N", "T">>) @@
    (<<"B", "I", "G", "I", "N", "T">> :> <<"B", "I", "G", "I", "N", "T">>) @@
    (<<"S", "M", "A", "L", "L", "I", "N", "T">> :> <<"S", "M", "A", "L", "L", "I", "N", "T">>) @@
    (<<"V", "A", "R", "C", "H", "A", "R">> :> VARCHAR255) @@
    (<<"T", "E", "X", "T">> :> <<"T", "E", "X", "T">>) @@
    (<<"C", "H", "A", "R">> :> <<"C", "H", "A", "R">>) @@
    (<<"B", "O", "O", "L", "E", "A", "N">> :> <<"B", "O", "O", "L", "E", "A", "N">>) @@
    (<<"B", "O", "O", "L">> :> <<"B", "O", "O", "L", "E", "A", "N">>) @@
    (<<"D", "A", "T", "E">> :> <<"D", "A", "T", "E">>) @@
    (<<"T", "I", "M", "E", "S", "T", "A", "M", "P">> :> <<"T", "I", "M", "E", "S", "T", "A", "M", "P">>) @@
    (<<"D", "A", "T", "E", "T", "I", "M", "E">> :> <<"D", "A", "T", "E", "T", "I", "M", "E">>) @@
    (<<"D", "E", "C", "I", "M", "A", "L">> :> DECIMAL18_2) @@
    (<<"N", "U", "M", "E", "R", "I", "C">> :> DECIMAL18_2) @@
    (<<"F", "L", "O", "A", "T">> :> <<"F", "L", "O", "A", "T">>) @@
    (<<"D", "O", "U", "B", "L", "E">> :> <<"D", "O", "U", "B", "L", "E">>) @@
    (<<"J", "S", "O", "N">> :> <<"J", "S", "O", "N">>)

\* Variant: the lookup without upper().
map_to_mysql_type_exact(generic_type) ==
    IF generic_type \in DOMAIN MYSQL_TYPE_MAP
    THEN MYSQL_TYPE_MAP[generic_type] ELSE VARCHAR255

\* MYSQL_TYPE_MAP.get(generic_type.upper(), 'VARCHAR(255)')
map_to_mysql_type(generic_type) ==
    LET key == Upper(generic_type)
    IN  IF key \in DOMAIN MYSQL_TYPE_MAP THEN MYSQL_TYPE_MAP[key] ELSE VARCHAR255

-----------------------------------------------------------------------------
(* Name sanitization                                                       *)

\* ''.join(c if c.isalnum() or c == '_' else '_' for c in name)
ReplaceSpecial(name) ==
    [i \in 1..Len(name) |-> IF IsAlnum(name[i]) \/ name[i] = "_" THEN name[i] ELSE "_"]

\* SQLGenerator._sanitize_name: the replacement, case preserved.
SQLSanitizeName(name) == ReplaceSpecial(name)

\* PhysicalERDGenerator._sanitize_name: the replacement, then upper().
ERDSanitizeName(name) == Upper(ReplaceSpecial(name))

-----------------------------------------------------------------------------
(* Sequence helpers                                                        *)

RECURSIVE Flatten(_)
\* The concatenation of a sequence of sequences.
Flatten(ss) == IF ss = <<>> THEN <<>> ELSE Head(ss) \o Flatten(Tail(ss))

DigitSeq == <<"0","1","2","3","4","5","6","7","8","9">>

RECURSIVE Str(_)
\* The decimal text of a natural number, as an f-string formats it.
Str(n) ==
    IF n < 10 THEN <<DigitSeq[n + 1]>>
    ELSE Str(n \div 10) \o <<DigitSeq[(n % 10) + 1]>>

-----------------------------------------------------------------------------
(* Schema model: load_metadata and the Table views                         *)

\* dict.get(key, default)
Get(d, key, default) == IF key \in DOMAIN d THEN d[key] ELSE default

\* col_data['columnName'] raises KeyError on a record without the key.
HasName(col_data) == "columnName" \in DOMAIN col_data

\* Column(...) as load_metadata builds it from one column record
\* (the description is read by no generator and is left out).
Column(col_data) ==
    [ name              |-> col_data["columnName"],
      data_type         |-> Get(col_data, "dataType", <<"V", "A", "R", "C", "H", "A", "R">>),
      is_primary_key    |-> Get(col_data, "isPrimaryKey", FALSE),
      is_foreign_key    |-> Get(col_data, "isForeignKey", FALSE),
      is_nullable       |-> Get(col_data, "nullable", TRUE),
      is_unique         |-> Get(col_data, "isUnique", FALSE),
      default_value     |-> Get(col_data, "defaultValue", None),
      references_table  |-> Get(col_data, "referencesTable", None),
      references_column |-> Get(col_data, "referencesColumn", None) ]

\* load_metadata raises when a column record of some table has no name.
LoadRaises(tables_data) ==
    \E t \in DOMAIN tables_data :
        \E c \in DOMAIN tables_data[t].columns : ~HasName(tables_data[t].columns[c])

\* The tables load_metadata returns, in the order of tables_data.
LoadTables(tables_data) ==
    [t \in DOMAIN tables_data |->
        [ name    |-> tables_data[t].name,
          columns |-> [c \in DOMAIN tables_data[t].columns |->
                          Column(tables_data[t].columns[c])] ]]

IsPrimaryKey(col) == col.is_primary_key
IsForeignKey(col) == col.is_foreign_key

\* Table.primary_keys: the primary-key columns, in column order.
primary_keys(table) == SelectSeq(table.columns, IsPrimaryKey)

\* Table.foreign_keys: the foreign-key-flagged columns, in column order.
foreign_keys(table) == SelectSeq(table.columns, IsForeignKey)

-----------------------------------------------------------------------------
(* generators/mysql_generator.py                                           *)

AUTO_INCREMENT == <<"A", "U", "T", "O", "_", "I", "N", "C", "R", "E", "M", "E", "N", "T">>
NOT_NULL == <<"N", "O", "T", " ", "N", "U", "L", "L">>
UNIQUE == <<"U", "N", "I", "Q", "U", "E">>
PRIMARY_KEY == <<"P", "R", "I", "M", "A", "R", "Y", " ", "K", "E", "Y">>

\* ['INTEGER', 'INT', 'BIGINT']
IntegerTypes == {<<"I", "N", "T", "E", "G", "E", "R">>, <<"I", "N", "T">>, <<"B", "I", "G", "I", "N", "T">>}

\* Variant: a prefix test in place of the exact match.
IsAutoIncrementByPrefix(column) ==
    /\ column.is_primary_key
    /\ \E k \in IntegerTypes :
          /\ Len(k) <= Len(column.data_type)
          /\ SubSeq(Upper(column.data_type), 1, Len(k)) = k

\* column.is_primary_key and column.data_type.upper() in [...]
IsAutoIncrement(column) ==
    column.is_primary_key /\ Upper(column.data_type) \in IntegerTypes

\* MySQLGenerator.map_type
map_type(generic_type) == map_to_mysql_type(generic_type)

\* _generate_column_definition: the parts joined by " ", in order.
GenerateColumnDefinition(column) ==
    <<SQLSanitizeName(column.name), map_type(column.data_type)>>
    \o (IF IsAutoIncrement(column) THEN <<AUTO_INCREMENT>> ELSE <<>>)
    \o (IF ~column.is_nullable THEN <<NOT_NULL>> ELSE <<>>)
    \o (IF column.is_unique THEN <<UNIQUE>> ELSE <<>>)
    \o (IF Truthy(column.default_value)
        THEN <<<<"D", "E", "F", "A", "U", "L", "T", " ">> \o column.default_value>> ELSE <<>>)

\* Variant: one PRIMARY KEY line per primary-key column.
GenerateCreateTableKeyPerColumn(table) ==
    LET col_defs == [c \in DOMAIN table.columns |->
                        GenerateColumnDefinition(table.columns[c])]
        pks      == primary_keys(table)
    IN  [ kind     |-> "CREATE TABLE",
          table    |-> SQLSanitizeName(table.name),
          col_defs |-> col_defs \o [k \in DOMAIN pks |->
                          <<PRIMARY_KEY, SQLSanitizeName(pks[k].name)>>] ]

\* _generate_create_table: col_defs holds one line per column and then,
\* when the table has primary keys, the PRIMARY KEY line.
GenerateCreateTable(table) ==
    LET col_defs == [c \in DOMAIN table.columns |->
                        GenerateColumnDefinition(table.columns[c])]
        pks      == primary_keys(table)
        pk_cols  == [k \in DOMAIN pks |-> SQLSanitizeName(pks[k].name)]
    IN  [ kind     |-> "CREATE TABLE",
          table    |-> SQLSanitizeName(table.name),
          col_defs |-> IF pks # <<>>
                       THEN Append(col_defs, <<PRIMARY_KEY>> \o pk_cols)
                       ELSE col_defs ]

\* The statement _generate_foreign_keys builds for fk_col at position idx.
ForeignKeyStatement(table, fk_col, idx) ==
    [ kind              |-> "ALTER TABLE",
      table             |-> SQLSanitizeName(table.name),
      fk_name           |-> <<"f", "k", "_">> \o SQLSanitizeName(table.name) \o <<"_">> \o Str(idx),
      column            |-> SQLSanitizeName(fk_col.name),
      references_table  |-> SQLSanitizeName(fk_col.references_table),
      references_column |-> SQLSanitizeName(fk_col.references_column),
      on_delete         |-> "CASCADE",
      on_update         |-> "CASCADE" ]

\* Whether a column has both halves of its reference.
HasCompleteReference(col) ==
    Truthy(col.references_table) /\ Truthy(col.references_column)

\* Variant: idx counts the statements emitted so far, so skipped columns
\* take no index.
GenerateForeignKeysDense(table) ==
    LET fks == SelectSeq(foreign_keys(table), HasCompleteReference)
    IN  [idx \in DOMAIN fks |-> ForeignKeyStatement(table, fks[idx], idx)]

\* Variant: only references_table is tested, as the ERD generator does.
GenerateForeignKeysTableOnly(table) ==
    LET fks == foreign_keys(table)
    IN  Flatten([idx \in DOMAIN fks |->
            IF ~Truthy(fks[idx].references_table)
            THEN <<>>
            ELSE <<ForeignKeyStatement(table, fks[idx], idx)>>])

\* _generate_foreign_keys: idx runs over enumerate(table.foreign_keys, 1)
\* and a column without a complete reference is skipped.
GenerateForeignKeys(table) ==
    LET fks == foreign_keys(table)
    IN  Flatten([idx \in DOMAIN fks |->
            IF ~Truthy(fks[idx].references_table)
               \/ ~Truthy(fks[idx].references_column)
            THEN <<>>
            ELSE <<ForeignKeyStatement(table, fks[idx], idx)>>])

\* Variant: the completeness filter of _generate_foreign_keys applied to
\* the indexes too.
GenerateIndexesComplete(table) ==
    LET fks == SelectSeq(foreign_keys(table), HasCompleteReference)
    IN  [i \in DOMAIN fks |->
            [ kind   |-> "CREATE INDEX",
              name   |-> <<"i", "d", "x", "_">> \o SQLSanitizeName(table.name) \o <<"_">>
                            \o SQLSanitizeName(fks[i].name),
              table  |-> SQLSanitizeName(table.name),
              column |-> SQLSanitizeName(fks[i].name) ]]

\* _generate_indexes: one statement per foreign-key-flagged column.
GenerateIndexes(table) ==
    LET fks == foreign_keys(table)
    IN  [i \in DOMAIN fks |->
            [ kind   |-> "CREATE INDEX",
              name   |-> <<"i", "d", "x", "_">> \o SQLSanitizeName(table.name) \o <<"_">>
                            \o SQLSanitizeName(fks[i].name),
              table  |-> SQLSanitizeName(table.name),
              column |-> SQLSanitizeName(fks[i].name) ]]

\* SQLGenerator.generate_ddl: every CREATE TABLE, then every foreign-key
\* statement, then every index statement, each in table order.
generate_ddl(tables) ==
    [t \in DOMAIN tables |-> GenerateCreateTable(tables[t])]
    \o Flatten([t \in DOMAIN tables |-> GenerateForeignKeys(tables[t])])
    \o Flatten([t \in DOMAIN tables |-> GenerateIndexes(tables[t])])

-----------------------------------------------------------------------------
(* erd/physical_erd.py                                                     *)

\* str.replace(old, new) for a one-character old.
Replace(s, old, new) ==
    Flatten([i \in 1..Len(s) |-> IF s[i] = old THEN new ELSE <<s[i]>>])

\* Variant: each of the three characters becomes an underscore.
CleanTypeUnderscores(mysql_type) ==
    Replace(Replace(Replace(mysql_type, "(", <<"_">>), ")", <<"_">>), ",", <<"_">>)

\* mysql_type.replace('(', '_').replace(')', '').replace(',', '_')
CleanType(mysql_type) ==
    Replace(Replace(Replace(mysql_type, "(", <<"_">>), ")", <<>>), ",", <<"_">>)

\* _generate_column_line: type token, name, key marker, constraint tags.
GenerateColumnLine(col) ==
    [ kind        |-> "column",
      type        |-> CleanType(map_to_mysql_type(col.data_type)),
      name        |-> ERDSanitizeName(col.name),
      key         |-> IF col.is_primary_key THEN <<" ", "P", "K">>
                      ELSE IF col.is_foreign_key THEN <<" ", "F", "K">> ELSE <<>>,
      constraints |->
          (IF col.is_primary_key /\ Upper(col.data_type) \in IntegerTypes
           THEN <<AUTO_INCREMENT>> ELSE <<>>)
          \o (IF ~col.is_nullable THEN <<NOT_NULL>> ELSE <<>>)
          \o (IF col.is_unique THEN <<UNIQUE>> ELSE <<>>)
          \o (IF Truthy(col.default_value)
              THEN <<<<"D", "E", "F", "A", "U", "L", "T", " ">> \o col.default_value>> ELSE <<>>)
          \o (IF col.is_foreign_key THEN <<<<"I", "N", "D", "E", "X">>>> ELSE <<>>) ]

\* _generate_entity: the opening line, one line per column, the closing line.
GenerateEntity(table) ==
    <<[kind |-> "entity", name |-> ERDSanitizeName(table.name)]>>
    \o [c \in DOMAIN table.columns |-> GenerateColumnLine(table.columns[c])]
    \o <<[kind |-> "end"]>>

\* Variant: the completeness test of the DDL generator.
GenerateRelationshipsComplete(table) ==
    LET fks == SelectSeq(foreign_keys(table), HasCompleteReference)
    IN  [i \in DOMAIN fks |->
            [ kind       |-> "relationship",
              from_table |-> ERDSanitizeName(fks[i].references_table),
              to_table   |-> ERDSanitizeName(table.name),
              label      |-> "FK, ON DELETE CASCADE" ]]

\* _generate_relationships: one line per foreign-key-flagged column whose
\* references_table is truthy.
GenerateRelationships(table) ==
    LET fks == foreign_keys(table)
    IN  Flatten([i \in DOMAIN fks |->
            IF ~Truthy(fks[i].references_table)
            THEN <<>>
            ELSE <<[ kind       |-> "relationship",
                     from_table |-> ERDSanitizeName(fks[i].references_table),
                     to_table   |-> ERDSanitizeName(table.name),
                     label      |-> "FK, ON DELETE CASCADE" ]>>])

\* Variant: a single loop, each entity followed by its relationships.
generate_mermaid_one_loop(tables) ==
    <<[kind |-> "erDiagram"]>>
    \o Flatten([t \in DOMAIN tables |->
            GenerateEntity(tables[t]) \o GenerateRelationships(tables[t])])

\* generate_mermaid: the header, every entity, then every relationship.
generate_mermaid(tables) ==
    <<[kind |-> "erDiagram"]>>
    \o Flatten([t \in DOMAIN tables |-> GenerateEntity(tables[t])])
    \o Flatten([t \in DOMAIN tables |-> GenerateRelationships(tables[t])])

-----------------------------------------------------------------------------
(* erd/renderer.py                                                         *)

\* What the browser does during one render: the step that raises
\* ("none": no step does) and whether page.evaluate finds the svg element.
RenderOutcomes(fmts) ==
    { o \in [fail_at : {"none", "launch", "page", "png", "pdf", "svg"},
             svg_found : BOOLEAN] :
        /\ o.fail_at \in {"png", "pdf", "svg"} => o.fail_at \in fmts
        /\ ~o.svg_found => o.fail_at \in {"none"} /\ "svg" \in fmts }

\* MermaidRenderer.render_to_images under outcome o: whether it raises,
\* the keys of the mapping it returns, the files it has written and the
\* state of the browser after the finally clause.
render_to_images(fmts, o) ==
    LET png_done == "png" \in fmts /\ o.fail_at \notin {"launch", "page", "png"}
        pdf_done == "pdf" \in fmts /\ o.fail_at \notin {"launch", "page", "png", "pdf"}
        svg_done == "svg" \in fmts /\ o.fail_at = "none" /\ o.svg_found
        written  == (IF png_done THEN {"png"} ELSE {})
                    \cup (IF pdf_done THEN {"pdf"} ELSE {})
                    \cup (IF svg_done THEN {"svg"} ELSE {})
    IN  [ raised  |-> o.fail_at # "none",
          results |-> IF o.fail_at # "none" THEN {} ELSE written,
          written |-> written,
          browser |-> IF o.fail_at = "launch" THEN "none" ELSE "closed" ]

-----------------------------------------------------------------------------
(* Inputs                                                                  *)

\* Table names of the input file, in file order (keys of a JSON object,
\* so distinct; their sanitized forms are distinct too).
TableNames == <<<<"c", "u", "s", "t", "o", "m", "e", "r", "s">>, <<"o", "r", "d", "e", "r", " ", "i", "t", "e", "m", "s">>>>

\* Column records of the input file.  Optional keys may be absent.
IdColumn ==
    [ columnName |-> <<"i", "d">>, dataType |-> <<"b", "i", "g", "i", "n", "t">>,
      isPrimaryKey |-> TRUE, nullable |-> FALSE ]

CustomerIdColumn ==
    [ columnName |-> <<"c", "u", "s", "t", "o", "m", "e", "r", "-", "i", "d">>, dataType |-> <<"i", "n", "t">>, isForeignKey |-> TRUE,
      referencesTable |-> <<"c", "u", "s", "t", "o", "m", "e", "r", "s">>, referencesColumn |-> <<"i", "d">> ]

RefTableOnlyColumn ==
    [ columnName |-> <<"r", "e", "f", " ", "2">>, isForeignKey |-> TRUE, isUnique |-> TRUE,
      defaultValue |-> <<>>, referencesTable |-> <<"a", ".", "b">> ]

NoRefTableColumn ==
    [ columnName |-> <<"x">>, dataType |-> <<"u", "u", "i", "d">>, isForeignKey |-> TRUE,
      defaultValue |-> <<"0">>, referencesTable |-> <<>>, referencesColumn |-> <<"i", "d">> ]

KeyAndRefColumn ==
    [ columnName |-> <<"c", "o", "d", "e">>, dataType |-> <<"I", "n", "t", "e", "g", "e", "r", "s">>, isPrimaryKey |-> TRUE,
      isForeignKey |-> TRUE, referencesTable |-> <<"c", "u", "s", "t", "o", "m", "e", "r", "s">>,
      referencesColumn |-> <<"c", "o", "-", "d", "e">> ]

PlainColumn ==
    [ columnName |-> <<"t", "o", "t", "a", "l">>, dataType |-> <<"d", "e", "c", "i", "m", "a", "l">>, nullable |-> FALSE,
      defaultValue |-> <<"0", ".", "0">>, referencesTable |-> <<"c", "u", "s", "t", "o", "m", "e", "r", "s">>,
      referencesColumn |-> <<"i", "d">> ]

NamelessColumn == [ dataType |-> <<"T", "E", "X", "T">>, isPrimaryKey |-> TRUE ]

ColumnPool ==
    { IdColumn, CustomerIdColumn, RefTableOnlyColumn, NoRefTableColumn,
      KeyAndRefColumn, PlainColumn, NamelessColumn }

\* Column lists of at most MaxCols records.
ColumnLists == UNION {[1..k -> ColumnPool] : k \in 0..MaxCols}

\* The input file with one table per column list, named in file order.
InputFile(lists) ==
    [t \in DOMAIN lists |-> [name |-> TableNames[t], columns |-> lists[t]]]

\* Input files of no, one or two tables and at most MaxCols columns in all:
\* a column list, whole or cut in two at any place.
IsRawInput(r) ==
    \/ r = <<>>
    \/ \E cols \in ColumnLists :
          \/ r = InputFile(<<cols>>)
          \/ \E j \in 0..Len(cols) :
                r = InputFile(<<SubSeq(cols, 1, j), SubSeq(cols, j + 1, Len(cols))>>)

\* The scenario of two tables, customers and orders, and two variations.
SampleInputs ==
    { <<>>,
      << [name |-> <<"c", "u", "s", "t", "o", "m", "e", "r", "s">>, columns |-> <<IdColumn, PlainColumn>>],
         [name |-> <<"o", "r", "d", "e", "r", "s">>, columns |-> <<IdColumn, CustomerIdColumn>>] >>,
      << [name |-> <<"o", "r", "d", "e", "r", "s">>, columns |-> <<IdColumn, NamelessColumn>>] >> }

\* 'png,svg,pdf'.split(',')
DefaultFormats == {"png", "svg", "pdf"}

\* The formats ERD_FORMATS may list.
FormatNames == {"png", "svg", "pdf"}

\* Characters of the names given to the sanitizers directly.
NameChars == {"a", "B", "7", "_", "-", " ", "U+00DF", "U+0390"}

NameInputs == UNION {[1..k -> NameChars] : k \in 0..MaxNameLen}

\* s.lower() and s.capitalize() on ASCII text, to spell the type inputs.
LowerText(s) ==
    [i \in 1..Len(s) |->
        IF s[i] \in Range(UpperAlphabet)
        THEN LowerAlphabet[CHOOSE k \in DOMAIN UpperAlphabet : UpperAlphabet[k] = s[i]]
        ELSE s[i]]

CapitalizedText(s) ==
    [i \in 1..Len(s) |-> IF i = 1 THEN s[i] ELSE LowerText(s)[i]]

UnrecognizedTypes ==
    { <<>>, <<"U", "U", "I", "D">>, <<"u", "u", "i", "d">>, <<"I", "N", "T", "E", "G", "E", "R", "S">>, <<"I", "n", "t", "e", "g", "e", "r", "s">>, <<"I", "N", "T", " ">>, <<"I", "N">>,
      <<"V", "A", "R", "C", "H", "A", "R", "(", "2", "5", "5", ")">>, <<"i", "n", "t", "4">>, <<"b", "i", "g", " ", "i", "n", "t">> }

\* Abstract types given to the type mapper directly: every key in three
\* spellings, a spelling with a dotless i (U+0131), and unrecognized names.
TypeInputs ==
    DOMAIN MYSQL_TYPE_MAP
    \cup {LowerText(k) : k \in DOMAIN MYSQL_TYPE_MAP}
    \cup {CapitalizedText(k) : k \in DOMAIN MYSQL_TYPE_MAP}
    \cup {<<"U+0131", "n", "t">>}
    \cup UnrecognizedTypes

-----------------------------------------------------------------------------
(* generate_physical_model                                                 *)

NoCall == [fn |-> "none", arg |-> <<>>, ret |-> <<>>]

\* The state before generate_physical_model runs, with ERD_FORMATS f.
Start(f) ==
    /\ formats = f
    /\ pc = "start"
    /\ metadata = <<>>
    /\ sql_file = <<>>
    /\ mmd_file = <<>>
    /\ files = {}
    /\ browser = "none"
    /\ image_results = {}
    /\ results = {}
    /\ call = NoCall
    /\ prev = NoCall

Init ==
    /\ IsRawInput(raw)
    /\ Start(DefaultFormats)

\* Variant: a loader that leaves out the records without a name and goes on.
LoadMetadataSkipping ==
    /\ pc = "start"
    /\ pc' = "loaded"
    /\ metadata' = LoadTables([t \in DOMAIN raw |->
                        [ name    |-> raw[t].name,
                          columns |-> SelectSeq(raw[t].columns, HasName) ]])
    /\ UNCHANGED <<raw, formats, sql_file, mmd_file, files, browser,
                   image_results, results, call, prev>>

\* metadata = load_metadata(file_id); a KeyError leaves generate_physical_model.
LoadMetadata ==
    /\ pc = "start"
    /\ IF LoadRaises(raw)
       THEN pc' = "failed" /\ metadata' = <<>>
       ELSE pc' = "loaded" /\ metadata' = LoadTables(raw)
    /\ UNCHANGED <<raw, formats, sql_file, mmd_file, files, browser,
                   image_results, results, call, prev>>

\* mysql_gen.save('mysql.sql'); results['mysql_sql'] = ...
GenerateSQL ==
    /\ pc = "loaded"
    /\ sql_file' = generate_ddl(metadata)
    /\ files' = files \cup {"mysql.sql"}
    /\ results' = results \cup {"mysql_sql"}
    /\ pc' = "sql_saved"
    /\ UNCHANGED <<raw, formats, metadata, mmd_file, browser, image_results,
                   call, prev>>

\* erd_gen.save_mermaid(); results['erd_mermaid'] = ...
SaveMermaid ==
    /\ pc = "sql_saved"
    /\ mmd_file' = generate_mermaid(metadata)
    /\ files' = files \cup {"erd_mysql.mmd"}
    /\ results' = results \cup {"erd_mermaid"}
    /\ pc' = "mermaid_saved"
    /\ UNCHANGED <<raw, formats, metadata, sql_file, browser, image_results,
                   call, prev>>

\* f'erd_{format_type}'
ErdKey(format_type) == "erd_" \o format_type

\* f"{base_name}.{format}"
ImageFile(format_type) == "erd_mysql." \o format_type

\* image_results = render_mermaid(...), then one results entry per item of
\* the mapping; an exception of the renderer leaves generate_physical_model.
RenderMermaid ==
    /\ pc = "mermaid_saved"
    /\ \E o \in RenderOutcomes(formats) :
          LET r == render_to_images(formats, o)
          IN  /\ files' = files \cup {ImageFile(f) : f \in r.written}
              /\ browser' = r.browser
              /\ IF r.raised
                 THEN /\ pc' = "failed"
                      /\ UNCHANGED <<image_results, results>>
                 ELSE /\ pc' = "rendered"
                      /\ image_results' = r.results
                      /\ results' = results \cup {ErdKey(f) : f \in r.results}
    /\ UNCHANGED <<raw, formats, metadata, sql_file, mmd_file, call, prev>>

\* The summary table is printed and results returned.
ReturnResults ==
    /\ pc = "rendered"
    /\ pc' = "done"
    /\ UNCHANGED <<raw, formats, metadata, sql_file, mmd_file, files, browser,
                   image_results, results, call, prev>>

Next == LoadMetadata \/ GenerateSQL \/ SaveMermaid \/ RenderMermaid \/ ReturnResults

Spec == Init /\ [][Next]_vars

\* The same program on the sample inputs, under every ERD_FORMATS setting.
InitRender ==
    /\ raw \in SampleInputs
    /\ \E f \in SUBSET FormatNames : Start(f)

SpecRender == InitRender /\ [][Next]_vars

-----------------------------------------------------------------------------
(* Direct calls of the helpers: at most two in a run, the second one of a  *)
(* sanitizer on the result of the first.                                   *)

Calling(fn, x, y) ==
    /\ prev = NoCall
    /\ call' = [fn |-> fn, arg |-> x, ret |-> y]
    /\ prev' = call
    /\ UNCHANGED <<raw, formats, pc, metadata, sql_file, mmd_file, files,
                   browser, image_results, results>>

CallMapType ==
    /\ call.fn \in {"none", "map_to_mysql_type"}
    /\ \E x \in TypeInputs : Calling("map_to_mysql_type", x, map_to_mysql_type(x))

CallSQLSanitize ==
    \E x \in (IF call = NoCall THEN NameInputs
              ELSE IF call.fn = "sql_sanitize_name" THEN {call.ret} ELSE {}) :
        Calling("sql_sanitize_name", x, SQLSanitizeName(x))

CallERDSanitize ==
    \E x \in (IF call = NoCall THEN NameInputs
              ELSE IF call.fn = "erd_sanitize_name" THEN {call.ret} ELSE {}) :
        Calling("erd_sanitize_name", x, ERDSanitizeName(x))

\* _generate_column_line on a column of abstract type x; the call keeps the
\* type token of the line.
CallGenerateColumnLine ==
    /\ call = NoCall
    /\ \E x \in TypeInputs :
          Calling("_generate_column_line", x,
                  GenerateColumnLine(Column([columnName |-> <<"c">>, dataType |-> x])).type)

NextCalls == CallMapType \/ CallSQLSanitize \/ CallERDSanitize \/ CallGenerateColumnLine

InitCalls ==
    /\ raw = <<>>
    /\ Start(DefaultFormats)

SpecCalls == InitCalls /\ [][NextCalls]_vars

-----------------------------------------------------------------------------
(* Reading the written artifacts back                                      *)

SqlWritten == "mysql.sql" \in files
MermaidWritten == "erd_mysql.mmd" \in files

Columns(t) == metadata[t].columns

\* Column positions of table t that are flagged as foreign keys, that also
\* name a referenced table, and that have a complete reference.
FlaggedCols(t) == {c \in DOMAIN Columns(t) : Columns(t)[c].is_foreign_key}
ReferringCols(t) == {c \in FlaggedCols(t) : Truthy(Columns(t)[c].references_table)}
QualifyingCols(t) ==
    {c \in ReferringCols(t) : Truthy(Columns(t)[c].references_column)}

\* The 1-based position of c among the column positions S.
RankIn(S, c) == Cardinality({d \in S : d <= c})

\* The foreign-key and the index statements of table t in mysql.sql, in
\* script order (the sanitized table names of an input are distinct).
IsForeignKeyOf(t, stmt) ==
    stmt.kind = "ALTER TABLE" /\ stmt.table = SQLSanitizeName(metadata[t].name)
IsIndexOf(t, stmt) ==
    stmt.kind = "CREATE INDEX" /\ stmt.table = SQLSanitizeName(metadata[t].name)
ForeignKeyStatements(t) == SelectSeq(sql_file, LAMBDA stmt : IsForeignKeyOf(t, stmt))
IndexStatements(t) == SelectSeq(sql_file, LAMBDA stmt : IsIndexOf(t, stmt))

\* fk_<sanitized table>_<i>
ConstraintName(t, i) ==
    <<"f", "k", "_">> \o SQLSanitizeName(metadata[t].name) \o <<"_">> \o Str(i)

-----------------------------------------------------------------------------
(* Claims                                                                  *)

\* C1 as stated: the foreign-key statements of a table are named
\* fk_<table>_<i>, i being the position of the column among the table's
\* qualifying foreign-key columns only, so k qualifying columns get 1..k.
C1_IndexOverQualifying ==
    SqlWritten =>
        \A t \in DOMAIN metadata :
            LET stmts == ForeignKeyStatements(t)
            IN  /\ Len(stmts) = Cardinality(QualifyingCols(t))
                /\ \A c \in QualifyingCols(t) :
                      stmts[RankIn(QualifyingCols(t), c)].fk_name
                          = ConstraintName(t, RankIn(QualifyingCols(t), c))

\* C1 amended: the statement of a qualifying column is named
\* fk_<table>_<i>, i being the position of the column among all the
\* foreign-key-flagged columns of the table; a flagged column without a
\* complete reference emits no statement and still takes an index.
C1_IndexOverFlagged ==
    SqlWritten =>
        \A t \in DOMAIN metadata :
            LET stmts == ForeignKeyStatements(t)
            IN  /\ Len(stmts) = Cardinality(QualifyingCols(t))
                /\ \A c \in QualifyingCols(t) :
                      stmts[RankIn(QualifyingCols(t), c)].fk_name
                          = ConstraintName(t, RankIn(FlaggedCols(t), c))

\* C1 witness: the script is written for a table where a flagged column
\* without a complete reference precedes a qualifying one.
C1_Witness ==
    /\ SqlWritten
    /\ \E t \in DOMAIN metadata :
          \E c \in QualifyingCols(t) :
              \E d \in FlaggedCols(t) \ QualifyingCols(t) : d < c

\* C2: every qualifying foreign-key column has exactly one ALTER TABLE
\* statement, the statements of a table following its qualifying columns in
\* order; each names the sanitized column, referenced table and referenced
\* column and cascades on delete and update; no two statements of a table
\* share a constraint name, and no statement belongs to no table.
C2_OneStatementPerReference ==
    SqlWritten =>
        /\ \A t \in DOMAIN metadata :
              LET stmts == ForeignKeyStatements(t)
              IN  /\ Len(stmts) = Cardinality(QualifyingCols(t))
                  /\ \A c \in QualifyingCols(t) :
                        LET stmt == stmts[RankIn(QualifyingCols(t), c)]
                            col  == Columns(t)[c]
                        IN  /\ stmt.column = SQLSanitizeName(col.name)
                            /\ stmt.references_table = SQLSanitizeName(col.references_table)
                            /\ stmt.references_column = SQLSanitizeName(col.references_column)
                            /\ stmt.on_delete = "CASCADE"
                            /\ stmt.on_update = "CASCADE"
                  /\ \A i, j \in DOMAIN stmts :
                        i # j => stmts[i].fk_name # stmts[j].fk_name
        /\ \A i \in DOMAIN sql_file :
              sql_file[i].kind = "ALTER TABLE" =>
                  \E t \in DOMAIN metadata : IsForeignKeyOf(t, sql_file[i])

\* C2 witness: the script is written for a table with two qualifying
\* foreign-key columns.
C2_Witness ==
    /\ SqlWritten
    /\ \E t \in DOMAIN metadata : Cardinality(QualifyingCols(t)) >= 2

\* C3: the CREATE INDEX statements of a table are one per foreign-key-
\* flagged column, in column order, named idx_<table>_<column>, whatever
\* the references; the foreign-key statements are only as many as the
\* qualifying columns, so a flagged column without a complete reference
\* has its index and no FOREIGN KEY statement.
C3_IndexPerFlaggedColumn ==
    SqlWritten =>
        \A t \in DOMAIN metadata :
            LET idxs == IndexStatements(t)
            IN  /\ Len(idxs) = Cardinality(FlaggedCols(t))
                /\ \A c \in FlaggedCols(t) :
                      LET stmt == idxs[RankIn(FlaggedCols(t), c)]
                      IN  /\ stmt.column = SQLSanitizeName(Columns(t)[c].name)
                          /\ stmt.name = <<"i", "d", "x", "_">>
                                \o SQLSanitizeName(metadata[t].name) \o <<"_">>
                                \o SQLSanitizeName(Columns(t)[c].name)
                /\ Len(ForeignKeyStatements(t)) = Cardinality(QualifyingCols(t))

\* C3 witness: the script is written for a table with a flagged column
\* that lacks references_column and one that lacks references_table.
C3_Witness ==
    /\ SqlWritten
    /\ \E t \in DOMAIN metadata :
          /\ \E c \in FlaggedCols(t) : ~Truthy(Columns(t)[c].references_column)
          /\ \E c \in FlaggedCols(t) : ~Truthy(Columns(t)[c].references_table)

\* The relationship lines of erd_mysql.mmd, all of them and those that end
\* at table t, in file order.
IsRelationshipTo(t, line) ==
    line.kind = "relationship" /\ line.to_table = ERDSanitizeName(metadata[t].name)
RelationshipLines == SelectSeq(mmd_file, LAMBDA line : line.kind = "relationship")
RelationshipsTo(t) == SelectSeq(mmd_file, LAMBDA line : IsRelationshipTo(t, line))

\* C4: the relationship lines of the ERD are as many as the foreign-key-
\* flagged columns, over all tables, whose references_table is set, with or
\* without references_column; per table they exceed the FOREIGN KEY
\* statements of the DDL by the columns that lack only references_column.
C4_RelationshipPerReferencedTable ==
    MermaidWritten =>
        /\ Len(RelationshipLines)
              = Cardinality(UNION {{<<t, c>> : c \in ReferringCols(t)} :
                                      t \in DOMAIN metadata})
        /\ \A t \in DOMAIN metadata :
              /\ Len(RelationshipsTo(t)) = Cardinality(ReferringCols(t))
              /\ Len(RelationshipsTo(t)) - Len(ForeignKeyStatements(t))
                    = Cardinality(ReferringCols(t) \ QualifyingCols(t))

\* C4 witness: both artifacts are written for a table with a foreign-key
\* column that names a table and no column, beside one naming no table.
C4_Witness ==
    /\ MermaidWritten
    /\ SqlWritten
    /\ \E t \in DOMAIN metadata :
          /\ ReferringCols(t) \ QualifyingCols(t) # {}
          /\ FlaggedCols(t) \ ReferringCols(t) # {}

\* Two texts that differ at most in the case of ASCII letters.
SameIgnoringCase(x, y) ==
    /\ Len(x) = Len(y)
    /\ \A i \in DOMAIN x :
          \/ x[i] = y[i]
          \/ \E k \in DOMAIN LowerAlphabet :
                {x[i], y[i]} = {LowerAlphabet[k], UpperAlphabet[k]}

\* An abstract type of the integer family: INTEGER, INT or BIGINT in any case.
IsIntegerFamily(type) == \E k \in IntegerTypes : SameIgnoringCase(type, k)

IsCreateTableOf(t, stmt) ==
    stmt.kind = "CREATE TABLE" /\ stmt.table = SQLSanitizeName(metadata[t].name)
CreateTableStatements(t) == SelectSeq(sql_file, LAMBDA stmt : IsCreateTableOf(t, stmt))

\* A line of a CREATE TABLE statement that carries the AUTO_INCREMENT
\* attribute: a part after the name and the type that reads AUTO_INCREMENT.
HasAutoIncrement(line) == \E i \in 3..Len(line) : line[i] = AUTO_INCREMENT

\* A line of a CREATE TABLE statement that is the PRIMARY KEY constraint (a
\* column line starts with a sanitized name, which holds no space).
IsPrimaryKeyLine(line) == Head(line) = PRIMARY_KEY

IntegerKeyCols(t) ==
    {c \in DOMAIN Columns(t) :
        Columns(t)[c].is_primary_key /\ IsIntegerFamily(Columns(t)[c].data_type)}

\* C5: in the CREATE TABLE statement of every table, the line of a column
\* carries AUTO_INCREMENT exactly when the column is a primary key of an
\* integer-family type; so with exactly one such column the statement
\* holds exactly one AUTO_INCREMENT, on that column's line.
C5_AutoIncrementOnIntegerKey ==
    SqlWritten =>
        \A t \in DOMAIN metadata :
            /\ Len(CreateTableStatements(t)) = 1
            /\ LET lines == CreateTableStatements(t)[1].col_defs
               IN  /\ Len(lines) >= Len(Columns(t))
                   /\ \A c \in DOMAIN Columns(t) :
                         HasAutoIncrement(lines[c]) <=> c \in IntegerKeyCols(t)
                   /\ Cardinality(IntegerKeyCols(t)) = 1 =>
                         /\ Cardinality({i \in DOMAIN lines : HasAutoIncrement(lines[i])}) = 1
                         /\ \A c \in IntegerKeyCols(t) : HasAutoIncrement(lines[c])

\* C5 witness: the script is written for a table with exactly one integer
\* primary key, a primary key of another type and an integer column that
\* is no key.
C5_Witness ==
    /\ SqlWritten
    /\ \E t \in DOMAIN metadata :
          /\ Cardinality(IntegerKeyCols(t)) = 1
          /\ \E c \in DOMAIN Columns(t) :
                Columns(t)[c].is_primary_key /\ ~IsIntegerFamily(Columns(t)[c].data_type)
          /\ \E c \in DOMAIN Columns(t) :
                ~Columns(t)[c].is_primary_key /\ IsIntegerFamily(Columns(t)[c].data_type)

KeyCols(t) == {c \in DOMAIN Columns(t) : Columns(t)[c].is_primary_key}

\* C6: the CREATE TABLE statement of a table has a PRIMARY KEY line exactly
\* when the table has a primary-key column; there is then one such line,
\* it comes last, after one line per column, and it lists the sanitized
\* names of all primary-key columns in declaration order.
C6_OnePrimaryKeyLine ==
    SqlWritten =>
        \A t \in DOMAIN metadata :
            /\ Len(CreateTableStatements(t)) = 1
            /\ LET lines == CreateTableStatements(t)[1].col_defs
                   n     == Len(Columns(t))
               IN  /\ Len(lines) = IF KeyCols(t) = {} THEN n ELSE n + 1
                   /\ \A i \in 1..n : ~IsPrimaryKeyLine(lines[i])
                   /\ KeyCols(t) # {} =>
                         /\ IsPrimaryKeyLine(lines[n + 1])
                         /\ Len(lines[n + 1]) = 1 + Cardinality(KeyCols(t))
                         /\ \A c \in KeyCols(t) :
                               lines[n + 1][1 + RankIn(KeyCols(t), c)]
                                   = SQLSanitizeName(Columns(t)[c].name)

\* C6 witness: the script is written for a table with two primary-key
\* columns of different names around a column that is no key.
C6_Witness ==
    /\ SqlWritten
    /\ \E t \in DOMAIN metadata :
          \E c, d \in KeyCols(t) :
              /\ Columns(t)[c].name # Columns(t)[d].name
              /\ \E e \in DOMAIN Columns(t) \ KeyCols(t) : c < e /\ e < d

IsMapTypeCall(c) == c.fn = "map_to_mysql_type"

\* C7: map_to_mysql_type returns a dialect type for every text; it returns
\* the value of the key that the upper-cased input spells and the fallback
\* VARCHAR(255) when that is no key; two inputs that differ only in letter
\* case get the same dialect type.
C7_MapTypeCaseInsensitive ==
    IsMapTypeCall(call) =>
        /\ call.ret \in {MYSQL_TYPE_MAP[k] : k \in DOMAIN MYSQL_TYPE_MAP} \cup {VARCHAR255}
        /\ \A k \in DOMAIN MYSQL_TYPE_MAP :
              Upper(call.arg) = k => call.ret = MYSQL_TYPE_MAP[k]
        /\ Upper(call.arg) \notin DOMAIN MYSQL_TYPE_MAP => call.ret = VARCHAR255
        /\ IsMapTypeCall(prev) /\ SameIgnoringCase(prev.arg, call.arg) =>
              prev.ret = call.ret

\* C7 witness: two calls on different spellings of one recognized type
\* whose dialect type is not the fallback.
C7_Witness ==
    /\ IsMapTypeCall(call)
    /\ IsMapTypeCall(prev)
    /\ prev.arg # call.arg
    /\ SameIgnoringCase(prev.arg, call.arg)
    /\ Upper(call.arg) \in DOMAIN MYSQL_TYPE_MAP
    /\ call.ret # VARCHAR255

IsSanitizeCall(c) == c.fn \in {"sql_sanitize_name", "erd_sanitize_name"}

\* C8: the result of either sanitizer holds only alphanumeric characters
\* and underscores and is as long as the name, and sanitizing the result
\* again returns it unchanged.
C8_SanitizeIdempotent ==
    IsSanitizeCall(call) =>
        /\ \A i \in DOMAIN call.ret : IsAlnum(call.ret[i]) \/ call.ret[i] = "_"
        /\ Len(call.ret) = Len(call.arg)
        /\ prev.fn = call.fn => call.ret = call.arg

\* Lines of erd_mysql.mmd before the entity block of table t, the header
\* aside: each earlier table has its columns and two framing lines.
LinesBefore(t) ==
    Cardinality(UNION {{<<u, k>> : k \in 1..(Len(Columns(u)) + 2)} : u \in 1..(t - 1)})

\* The positions of the opening line of table t and of the last entity line.
EntityStart(t) == 2 + LinesBefore(t)
EntitiesEnd == 1 + LinesBefore(Len(metadata) + 1)

\* The (table, column) positions that yield a relationship line, and the
\* 1-based position of one of them in table order, then column order.
ReferringPairs == UNION {{<<t, c>> : c \in ReferringCols(t)} : t \in DOMAIN metadata}
PairRank(p) ==
    Cardinality({q \in ReferringPairs :
                    q[1] < p[1] \/ (q[1] = p[1] /\ q[2] <= p[2])})

\* C9: erd_mysql.mmd holds the header, then one entity block per table in
\* table order, each with one line per column in declaration order, then
\* the relationship lines in table order and, within a table, column
\* order; every entity line comes before every relationship line.
C9_EntitiesThenRelationships ==
    MermaidWritten =>
        /\ Len(mmd_file) = EntitiesEnd + Cardinality(ReferringPairs)
        /\ mmd_file[1].kind = "erDiagram"
        /\ \A t \in DOMAIN metadata :
              LET s == EntityStart(t)
              IN  /\ mmd_file[s].kind = "entity"
                  /\ mmd_file[s].name = ERDSanitizeName(metadata[t].name)
                  /\ \A c \in DOMAIN Columns(t) :
                        /\ mmd_file[s + c].kind = "column"
                        /\ mmd_file[s + c].name = ERDSanitizeName(Columns(t)[c].name)
                  /\ mmd_file[s + Len(Columns(t)) + 1].kind = "end"
        /\ \A p \in ReferringPairs :
              LET line == mmd_file[EntitiesEnd + PairRank(p)]
              IN  /\ line.kind = "relationship"
                  /\ line.to_table = ERDSanitizeName(metadata[p[1]].name)
                  /\ line.from_table
                        = ERDSanitizeName(Columns(p[1])[p[2]].references_table)
        /\ \A i, j \in DOMAIN mmd_file :
              /\ mmd_file[i].kind \in {"entity", "column", "end"}
              /\ mmd_file[j].kind = "relationship"
              => i < j

\* C9 witness: the diagram is written for two tables that both have
\* relationships, one of them two to different tables.
C9_Witness ==
    /\ MermaidWritten
    /\ Len(metadata) = 2
    /\ \A t \in DOMAIN metadata : ReferringCols(t) # {}
    /\ \E t \in DOMAIN metadata :
          \E c, d \in ReferringCols(t) :
              Columns(t)[c].references_table # Columns(t)[d].references_table

\* C10: when render_to_images has returned, its mapping has an entry for
\* every format of ERD_FORMATS, and so have the results that
\* generate_physical_model returns.
C10_AllOrNothing ==
    /\ pc \in {"rendered", "done"} => \A f \in formats : f \in image_results
    /\ pc = "done" => \A f \in formats : ErdKey(f) \in results

\* C11: when some column record of some table of the input has no name,
\* load_metadata raises and returns no Metadata, and generate_physical_model
\* ends there: no generator runs, neither mysql.sql nor erd_mysql.mmd nor an
\* image is written, no result is reported, and no table or column is
\* loaded without the bad record.
C11_NoArtifactPastBadRecord ==
    LoadRaises(raw) =>
        /\ pc \in {"start", "failed"}
        /\ metadata = <<>>
        /\ sql_file = <<>> /\ mmd_file = <<>>
        /\ files = {} /\ results = {} /\ image_results = {}
        /\ browser = "none"

\* The load has failed on a file whose first table is well-formed and whose
\* second table has a named column before the record without a name.
C11_Witness ==
    /\ pc = "failed"
    /\ Len(raw) = 2
    /\ Len(raw[1].columns) > 0
    /\ \A c \in DOMAIN raw[1].columns : HasName(raw[1].columns[c])
    /\ \E c \in DOMAIN raw[2].columns :
          /\ c > 1
          /\ ~HasName(raw[2].columns[c])
          /\ \A d \in 1..(c - 1) : HasName(raw[2].columns[d])

IsColumnLineCall(c) == c.fn = "_generate_column_line"
SyntaxChars == {"(", ")", ","}
HasSyntaxChar(s) == \E i \in DOMAIN s : s[i] \in SyntaxChars

\* C12 as stated: the type token of an ERD column line is the dialect type
\* of the column's abstract type with every parenthesis and every comma
\* replaced by an underscore, and so holds none of '(' ')' ','.
C12_TypeTokenUnderscored ==
    IsColumnLineCall(call) =>
        LET mysql_type == map_to_mysql_type(call.arg)
        IN  /\ call.ret = [i \in DOMAIN mysql_type |->
                              IF mysql_type[i] \in SyntaxChars THEN "_" ELSE mysql_type[i]]
            /\ ~HasSyntaxChar(call.ret)

\* C12 as the code has it: the type token is the dialect type with every
\* '(' and every ',' replaced by an underscore and every ')' removed, and
\* so holds none of '(' ')' ',', for recognized and unrecognized abstract
\* types alike.
C12_TypeTokenClean ==
    IsColumnLineCall(call) =>
        LET mysql_type == map_to_mysql_type(call.arg)
            kept == SelectSeq(mysql_type, LAMBDA ch : ch # ")")
        IN  /\ call.ret = [i \in DOMAIN kept |->
                              IF kept[i] \in {"(", ","} THEN "_" ELSE kept[i]]
            /\ ~HasSyntaxChar(call.ret)

\* A column line was generated for an unrecognized abstract type, whose
\* dialect type is the fallback VARCHAR(255) and whose token is VARCHAR_255.
C12_Witness ==
    /\ IsColumnLineCall(call)
    /\ Upper(call.arg) \notin DOMAIN MYSQL_TYPE_MAP
    /\ HasSyntaxChar(map_to_mysql_type(call.arg))
    /\ call.ret = <<"V", "A", "R", "C", "H", "A", "R", "_", "2", "5", "5">>

====
